---- MODULE Spec2Model ----
(***************************************************************************)
(* Generation pipeline of the OCLite VS Code extension: submit a           *)
(* generation job, poll it, download the result to the temp cache and      *)
(* upload it to the blob store.  Three entry points run the generation     *)
(* stage:                                                                  *)
(*   "chat"    OCLiteChatParticipant       (src/src/types/index.ts)        *)
(*   "ext"     OCLiteExtension             (src/src/extension.ts)          *)
(*   "sidebar" SidebarProvider             (src/src/panels/...)            *)
(* One step of the model is the code that runs between two awaits of the   *)
(* single-threaded event loop; the cancellation token, the backend and the *)
(* clock are the environment.                                              *)
(***************************************************************************)
EXTENDS Integers, Sequences, FiniteSets, TLC

VARIABLES
    entry,            \* which handler is running: "none" before a request
    pc,               \* the await the run is suspended at
    i,                \* loop variable of the poll loop
    cancelled,        \* token.isCancellationRequested
    cancelledAt,      \* the job's status when the token was signaled
    job,              \* the backend's view of the job: status, output, error
    lastSeen,         \* status of the last response the handler consumed
    genRet,           \* what the generation stage returned to its caller
    genWhy,           \* which exit of the generation stage was taken
    net,              \* requests issued so far, per service
    netAfterCancel,   \* requests issued while the token was already signaled
    outcome,          \* "running", "ok", "failed", "aborted"
    failMsgs,         \* failure messages shown to the user, in order
    buttons,          \* command buttons handed to the user
    notes,            \* informational notes shown to the user
    localPath,        \* temp path returned by the download, NoPath if none
    files,            \* files present in the temp directory
    downloadedImages, \* the module-level map of temp files
    shareUrl,         \* share URL returned by the cloud upload, NoShare if none
    cloud,            \* which exit of the cloud stage was taken
    pendingBlob,      \* the blob write in flight: <<>> or <<blob>>
    blobs,            \* blobs written to the container
    session,          \* _currentUserSession: "" or the account id
    containerClient,  \* _containerClient !== null
    rateLimitMap,     \* _rateLimitMap
    now,              \* last value read from Date.now()
    ikPc,             \* uploadToImageKit: the await the call is suspended at
    attempt,          \* uploadToImageKit: loop variable of the retry loop
    lastError,        \* uploadToImageKit: message of lastError, "" while null
    ikReturn,         \* uploadToImageKit: the value the call resolved with
    ikResults,        \* how each client.files.upload call settled, in order
    ikDelays,         \* the delays awaited between attempts, in order
    ikTelemetry,      \* telemetry events sent by uploadToImageKit
    lastCheck,        \* the last checkRateLimit call of a gated command
    allowedAt,        \* allowed checkRateLimit calls of account u1 in the last 60 s, by time
    gated,            \* the last gated command: what it returned and did
    timers,           \* pending TTL timers of the temp cache
    runPath,          \* per run: the temp path its download returned
    runKey,           \* per run: the blob name its upload wrote
    lastCleanup,      \* the last cleanupTempFile call
    unlinkFailed,     \* some fs.unlinkSync has thrown
    deactivated,      \* the extension has been deactivated
    savePc,           \* per run: the await its oclite.saveImage call is suspended at
    lastSave,         \* the exit taken by the last oclite.saveImage call that returned
    lastPreview,      \* the last oclite.previewImage call
    restarts,         \* activations after a deactivation
    leftAtActivation, \* files found in the temp directory by the last activation
    label,            \* _currentUserSession.account.label, <<>> without a session
    upPc,             \* uploadGeneratedImage: the await the call is suspended at
    upWrite,          \* uploadGeneratedImage: the uploadData request of the call
    lastUpload,       \* the last uploadGeneratedImage call that returned
    shareIds,         \* the share id each uploadGeneratedImage call derived, per artifact
    soPc,             \* signOutUser: the await the call is suspended at
    initPc,           \* initializeBlobStorage: the await the call is suspended at
    lastInit,         \* how the last initializeBlobStorage call ended
    emitted,          \* what left the process: telemetry, log lines, keys, metadata
    listing,          \* what listBlobsFlat yields under the user's prefix
    images,           \* what the last fetchImageGallery call returned
    lastMax           \* the maxResults argument of the last fetchImageGallery call

pipelineVars == <<entry, pc, i, cancelled, cancelledAt, job, lastSeen, genRet, genWhy, net,
          netAfterCancel, outcome, failMsgs, buttons, notes, localPath, files,
          downloadedImages, shareUrl, cloud, pendingBlob, blobs, session,
          containerClient, rateLimitMap, now>>

ikVars == <<ikPc, attempt, lastError, ikReturn, ikResults, ikDelays, ikTelemetry>>

\* State of the services the generation handlers do not touch.
limiterVars == <<lastCheck, allowedAt, gated>>

saveVars == <<savePc, lastSave, lastPreview>>

restartVars == <<restarts, leftAtActivation>>

cacheVars == <<timers, runPath, runKey, lastCleanup, unlinkFailed, deactivated,
               saveVars, restartVars>>

storeVars == <<label, upPc, upWrite, lastUpload, shareIds, soPc, initPc, lastInit,
               emitted>>

galleryVars == <<listing, images, lastMax>>

auxVars == <<ikVars, limiterVars, cacheVars, storeVars, galleryVars>>

vars == <<pipelineVars, auxVars>>

genVars   == <<genRet, genWhy>>
uiVars    == <<failMsgs, buttons, notes>>
fileVars  == <<localPath, files, downloadedImages>>
cloudVars == <<shareUrl, cloud, pendingBlob, blobs, rateLimitMap>>
netVars   == <<net, netAfterCancel>>
authVars  == <<session, containerClient>>

----------------------------------------------------------------------------
\* Program constants

ChatPollLimit == 30
SidebarPollLimit == 60
RATE_LIMIT_WINDOW == 60000
MAX_RETRIES == 3
MsPerSecond == 1000
TTL_MS == 1800000
RETRY_DELAY_MS == 2000
SlugLimit == 30
MAX_REQUESTS_PER_WINDOW == 10

\* Bounds of the model

MaxTicks == 3
TickMs == 25000
MaxRestarts == 1
MaxPromptLen == 2

----------------------------------------------------------------------------
\* Values

Entries == {"chat", "ext", "sidebar"}
ChatEntries == {"chat", "ext"}
Users == {"u1"}

NonTerminal == {"queued", "starting", "processing"}
Terminal == {"succeeded", "failed", "canceled"}
Statuses == NonTerminal \cup Terminal

NoJob == [status |-> "none", out |-> FALSE, err |-> ""]

\* What the backend can report: an output only with succeeded, an error
\* string only with failed or canceled.
JobStates ==
    [status : NonTerminal, out : {FALSE}, err : {""}]
    \cup [status : {"succeeded"}, out : BOOLEAN, err : {""}]
    \cup [status : {"failed", "canceled"}, out : {FALSE}, err : {"", "NSFW content"}]

NetErr == [status |-> "neterr", out |-> FALSE, err |-> "Network Error"]

Times == {k * TickMs : k \in 0..MaxTicks}

NoCalls == [submit |-> 0, poll |-> 0, download |-> 0, cdn |-> 0, blob |-> 0]

RetNone == [kind |-> "none", msg |-> <<>>]
RetNull == [kind |-> "null", msg |-> <<>>]
RetUrl == [kind |-> "url", msg |-> <<>>]
RetThrow(m) == [kind |-> "throw", msg |-> m]

----------------------------------------------------------------------------
\* Generation stage: pure parts

PollLimitOffByOne(e) == IF e = "sidebar" THEN SidebarPollLimit ELSE ChatPollLimit + 1

PollLimit(e) == IF e = "sidebar" THEN SidebarPollLimit ELSE ChatPollLimit

TokenCheckedOnEntryOnly(e, k) == e \in ChatEntries /\ k = 0

\* Does iteration k of the poll loop test the token before its delay?
TokenChecked(e, k) == e \in ChatEntries

\* poll.data.error || 'Unknown'
ReasonOf(err) == IF err = "" THEN "Unknown" ELSE err

\* The Error thrown for a failed/canceled poll response.
BackendFailedMsg(e, status, err) ==
    CASE e = "chat" -> <<"Generation ", status, ": ", ReasonOf(err)>>
      [] e = "ext" -> <<"Generation ", status, ". Reason: ", ReasonOf(err)>>
      [] OTHER -> IF err = "" THEN <<"Generation failed on server.">> ELSE <<err>>

\* The Error the caller throws when the stage produced no URL.
NullUrlMsg(e) ==
    CASE e = "chat" -> <<"Generation did not produce an image URL.">>
      [] e = "ext" -> <<"Timeout or failure: Generation did not produce an image URL.">>
      [] OTHER -> <<"Generation timeout. Please try again.">>

\* error.message || fallback, for a rejected request
RequestErrorMsg(e, m) ==
    IF m # "" THEN <<m>>
    ELSE CASE e = "chat" -> <<"Unknown error">>
           [] e = "ext" -> <<"An unknown error occurred.">>
           [] OTHER -> <<"Unknown error occurred">>

\* What the handler does with the submit response.
SubmitVerdict(e, resp) ==
    IF e \in ChatEntries
    THEN IF resp.status \in {"processing", "starting"} THEN "poll"
         ELSE IF resp.status = "succeeded" /\ resp.out THEN "url"
         ELSE "null"
    ELSE IF resp.status = "succeeded" /\ resp.out THEN "url"
         ELSE IF resp.status \in {"processing", "starting", "queued"} THEN "poll"
         ELSE "null"

PollVerdictNullOnFailure(e, resp) ==
    IF e \in ChatEntries
    THEN IF resp.status = "succeeded" THEN (IF resp.out THEN "url" ELSE "null")
         ELSE IF resp.status \in {"failed", "canceled"} THEN "null"
         ELSE "continue"
    ELSE IF resp.status = "succeeded" /\ resp.out THEN "url"
         ELSE IF resp.status = "failed" THEN "throw"
         ELSE "continue"

\* What the poll loop does with one poll response.
PollVerdict(e, resp) ==
    IF e \in ChatEntries
    THEN IF resp.status = "succeeded" THEN (IF resp.out THEN "url" ELSE "null")
         ELSE IF resp.status \in {"failed", "canceled"} THEN "throw"
         ELSE "continue"
    ELSE IF resp.status = "succeeded" /\ resp.out THEN "url"
         ELSE IF resp.status = "failed" THEN "throw"
         ELSE "continue"

\* What the poll loop returns when the token is found signaled.
CanceledReturn == RetNull

\* What the generation stage returns when the loop runs out of attempts.
TimeoutReturn == RetNull

\* The failure a terminal poll response stands for.
WhyOf(resp) == IF resp.status \in {"failed", "canceled"} THEN "BackendFailed" ELSE "NoOutput"

\* The one message the catch block shows for a generation-stage result.
UserMessage(e, ret) == IF ret.kind = "null" THEN NullUrlMsg(e) ELSE ret.msg

Issue(service) ==
    /\ net' = [net EXCEPT ![service] = @ + 1]
    /\ netAfterCancel' = IF cancelled
                         THEN [netAfterCancel EXCEPT ![service] = @ + 1]
                         ELSE netAfterCancel

----------------------------------------------------------------------------
\* Cloud stage: pure parts

NoPath == <<>>

\* path.join(tempDir, `${slug}_${Date.now()}.png`)
TempPath(t) == <<"oclite", "slug", t>>

\* account.id written out as it is
RawId(u) == <<"id", u>>

hashUserIdKeepsId(u) == <<"id", u>>

\* sha256(userId) truncated to 8 hex digits
hashUserId(u) == <<"sha256/8", u>>

\* `users/${hashUserId(session.account.id)}`
getUserContainerPath(u) == <<"users", hashUserId(u)>>

\* sha256(blobName + timestamp) truncated to 10 base64url characters
generateShareId(blobName, timestamp) == <<"sha256/10", blobName, timestamp>>

\* `${SHARE_BASE_URL}/${shareId}`
createShareUrl(shareId) == <<"https://oclite.site/share", shareId>>

NoShare == <<>>

NoEntry == [present |-> FALSE, count |-> 0, resetTime |-> 0]

RateLimitAfterKeepsResetTime(m, u, t) ==
    IF ~m[u].present
    THEN [m EXCEPT ![u] = [present |-> TRUE, count |-> 1,
                           resetTime |-> t + RATE_LIMIT_WINDOW]]
    ELSE IF t > m[u].resetTime THEN [m EXCEPT ![u].count = 1]
    ELSE IF m[u].count >= MAX_REQUESTS_PER_WINDOW THEN m
    ELSE [m EXCEPT ![u].count = @ + 1]

\* checkRateLimit: the map after the call
RateLimitAfter(m, u, t) ==
    IF ~m[u].present \/ t > m[u].resetTime
    THEN [m EXCEPT ![u] = [present |-> TRUE, count |-> 1,
                           resetTime |-> t + RATE_LIMIT_WINDOW]]
    ELSE IF m[u].count >= MAX_REQUESTS_PER_WINDOW THEN m
    ELSE [m EXCEPT ![u].count = @ + 1]

RateLimitAllowsAtCeiling(m, u, t) ==
    \/ ~m[u].present
    \/ t > m[u].resetTime
    \/ m[u].count <= MAX_REQUESTS_PER_WINDOW

\* checkRateLimit: the value returned
RateLimitAllows(m, u, t) ==
    \/ ~m[u].present
    \/ t > m[u].resetTime
    \/ m[u].count < MAX_REQUESTS_PER_WINDOW

\* The blob uploadGeneratedImage writes: its name and its metadata.
BlobFor(u, t) ==
    LET blobName == <<getUserContainerPath(u), t, "model", "slug">>
        shareId == generateShareId(blobName, t)
    IN  [name |-> blobName,
         metadata |-> [originalPrompt |-> "prompt",
                       model |-> "model",
                       generatedBy |-> "oclite-vscode",
                       timestamp |-> t,
                       userId |-> hashUserId(u),
                       userEmail |-> "label",
                       shareable |-> "true",
                       shareId |-> shareId,
                       shareUrl |-> createShareUrl(shareId)]]

CloudErrorPropagates(e) == "failed"

\* What an exception raised inside the cloud stage does to the run: the
\* stage's own try/catch swallows it.
CloudErrorOutcome(e) == "ok"

\* What a rejected download does to the run.
DownloadErrorMsg(e, m) ==
    IF e = "ext" THEN <<"Failed to download image: ", "Download failed: ", m>>
    ELSE <<m>>

----------------------------------------------------------------------------
\* CDN uploader: pure parts (uploadToImageKit)

\* What client.files.upload can settle with: a result carrying a URL, a
\* result without one (no result at all, or an empty url), or a rejection.
IkResponses ==
    [kind : {"result"}, url : {"https://ik.imagekit.io/a.png"},
     thumbnailUrl : {"", "https://ik.imagekit.io/tr/a.png"}, message : {""}]
    \cup [kind : {"result", "noresult"}, url : {""}, thumbnailUrl : {""}, message : {""}]
    \cup [kind : {"rejected"}, url : {""}, thumbnailUrl : {""},
          message : {"ETIMEDOUT", "ECONNRESET", "429 Too Many Requests"}]

IkNotReturned == [kind |-> "pending", url |-> "", thumbnailUrl |-> ""]
IkNull == [kind |-> "null", url |-> "", thumbnailUrl |-> ""]

\* { url, fileId, thumbnailUrl: result.thumbnailUrl || result.url }
IkResult(resp) ==
    [kind |-> "result", url |-> resp.url,
     thumbnailUrl |-> IF resp.thumbnailUrl = "" THEN resp.url ELSE resp.thumbnailUrl]

\* !result || !result.url
HasNoUrl(resp) == resp.kind = "noresult" \/ resp.url = ""

\* How one upload call settled, as the loop classifies it.
SettledAs(resp) ==
    IF resp.kind = "rejected" THEN "rejected"
    ELSE IF HasNoUrl(resp) THEN "nourl"
    ELSE "url"

LoopContinuesOnceMore(a) == a <= MAX_RETRIES + 1

\* attempt <= MAX_RETRIES
LoopContinues(a) == a <= MAX_RETRIES

\* waitMs = RETRY_DELAY_MS * attempt
WaitMs(a) == RETRY_DELAY_MS * a

\* The delay the loop awaits after attempt a settled as `how`, 0 when it
\* goes on without awaiting one.
DelayAfter(how, a) == IF how = "rejected" /\ a < MAX_RETRIES THEN WaitMs(a) ELSE 0

\* No call of uploadToImageKit has been made.
IkIdle ==
    /\ ikPc = "idle"
    /\ attempt = 0
    /\ lastError = ""
    /\ ikReturn = IkNotReturned
    /\ ikResults = <<>>
    /\ ikDelays = <<>>
    /\ ikTelemetry = <<>>

----------------------------------------------------------------------------
\* Rate limiter: pure parts (checkRateLimit and the commands it gates)

RateUsers == {"u1", "u2"}

\* The account whose allowed calls are logged.
Observed == "u1"

\* Clock readings: the start of a window, its middle, its reset time and the
\* first reading after it.
RateTimes == {0, RATE_LIMIT_WINDOW \div 2, RATE_LIMIT_WINDOW, RATE_LIMIT_WINDOW + 1}

RECURSIVE SumOver(_, _)
\* The number of calls a log holds at the times in S.
SumOver(log, S) ==
    IF S = {} THEN 0
    ELSE LET s == CHOOSE x \in S : TRUE IN log[s] + SumOver(log, S \ {s})

\* Math.ceil(x / d) for d > 0
CeilDiv(x, d) == (x + d - 1) \div d

WaitSecondsSinceReset(m, u, t) == CeilDiv(t - m[u].resetTime, MsPerSecond)

\* wait = Math.ceil((entry.resetTime - now) / 1000)
WaitSeconds(m, u, t) == CeilDiv(m[u].resetTime - t, MsPerSecond)

NoCheck == [user |-> "", at |-> 0, before |-> NoEntry, allowed |-> FALSE, wait |-> 0]

\* One checkRateLimit call: who, when, the entry it found, what it returned
\* and the wait it reported (0 when it reported none).
CheckOf(m, u, t) ==
    [user |-> u, at |-> t, before |-> m[u],
     allowed |-> RateLimitAllows(m, u, t),
     wait |-> IF RateLimitAllows(m, u, t) THEN 0 ELSE WaitSeconds(m, u, t)]

NoGated == [op |-> "none", ret |-> "none", denied |-> FALSE, storeCalls |-> 0]

\* The allowed calls of one user that are at most one window old at time t.
Recent(log, t) == [s \in RateTimes |-> IF s + RATE_LIMIT_WINDOW >= t THEN log[s] ELSE 0]

\* No gated command has been run.
LimiterIdle ==
    /\ lastCheck = NoCheck
    /\ allowedAt = [s \in RateTimes |-> 0]
    /\ gated = NoGated

----------------------------------------------------------------------------
\* Temp cache: pure parts (downloadToTemp, cleanupTempFile, cleanupAll)

\* Two chat requests of the same account with the same prompt.
RunIds == {"A", "B"}

\* Clock readings: two adjacent milliseconds, and the two readings one TTL
\* later.
CacheTimes == {0, 1, TTL_MS, TTL_MS + 1}

\* The timer set by setTimeout(() => cleanupTempFile(tempPath), 30 * 60 * 1000)
\* at clock reading t.
TimerFor(r, path, t) == [run |-> r, path |-> path, due |-> t + TTL_MS]

NoKey == <<>>

\* The paths downloadToTemp can produce, and the timers it can set.
CachePaths == {TempPath(t) : t \in CacheTimes}
CacheTimers == {TimerFor(r, TempPath(t), t) : r \in RunIds, t \in CacheTimes}

\* A cleanupTempFile call: its argument, whether the file existed, whether
\* unlinkSync threw; flip changes with every call.
NoCleanup == [path |-> NoPath, existed |-> FALSE, threw |-> FALSE, flip |-> FALSE]

\* No oclite.saveImage call has returned.
NoSave == "none"

\* An oclite.previewImage call: its argument and whether the file existed.
NoPreview == [path |-> NoPath, opened |-> FALSE, flip |-> FALSE]

\* The exit oclite.saveImage takes once the save dialog has closed: no target
\* chosen; readFileSync(tempPath) throws; writeFileSync(target) throws; or
\* the bytes are written.
SaveOutcomeTrustingCheck(exists, chosen, writeOk) ==
    IF ~chosen THEN "cancelled"
    ELSE IF ~writeOk THEN "write_error"
    ELSE "saved"

SaveOutcome(exists, chosen, writeOk) ==
    IF ~chosen THEN "cancelled"
    ELSE IF ~exists THEN "read_error"
    ELSE IF ~writeOk THEN "write_error"
    ELSE "saved"

\* What oclite.saveImage shows for an exit.
SaveNote(out) ==
    CASE out = "saved" -> {"image_saved"}
      [] out \in {"read_error", "write_error"} -> {"save_error"}
      [] out = "not_found" -> {"save_failed_not_found"}
      [] OTHER -> {}

\* oclite.saveImage calls cleanupTempFile after writeFileSync returned and
\* the information message was shown.
CleansUpAfterAnyChoice(out) == out \in {"saved", "write_error"}

CleansUpAfter(out) == out = "saved"

\* No download has been stored, no command has been used.
CacheIdle ==
    /\ timers = {}
    /\ runPath = [r \in RunIds |-> NoPath]
    /\ runKey = [r \in RunIds |-> NoKey]
    /\ lastCleanup = NoCleanup
    /\ unlinkFailed = FALSE
    /\ deactivated = FALSE
    /\ savePc = [r \in RunIds |-> "idle"]
    /\ lastSave = NoSave
    /\ lastPreview = NoPreview
    /\ restarts = 0
    /\ leftAtActivation = {}

----------------------------------------------------------------------------
\* Blob service: pure parts (uploadGeneratedImage, auth)

\* Text is a sequence of code points.  A line feed, "A", "é".
PromptChars == {10, 65, 233}

Prompts == UNION {[1..n -> PromptChars] : n \in 0..MaxPromptLen}

\* The configured model name: "o" for oclite, "s" for sdxl-lightning.
Models == {<<111>>, <<115>>}

\* account.label as the authentication provider reports it: "j", "é".
Labels == {<<106>>, <<233>>}

NoLabel == <<>>

\* 'anonymous'
Anonymous == <<97, 110, 111, 110, 121, 109, 111, 117, 115>>

\* Printable ASCII, 0x20-0x7E.
IsPrintable(c) == c >= 32 /\ c <= 126

Printable(text) == \A k \in 1..Len(text) : IsPrintable(text[k])

\* String.prototype.toLowerCase on the code points used here.
ToLower(c) == IF c >= 65 /\ c <= 90 THEN c + 32 ELSE c

\* \s
IsSpace(c) == c \in {9, 10, 11, 12, 13, 32}

\* [a-z0-9\s]
IsSlugChar(c) == (c >= 97 /\ c <= 122) \/ (c >= 48 /\ c <= 57) \/ IsSpace(c)

RECURSIVE DropSpaces(_)
DropSpaces(text) ==
    IF text # <<>> /\ IsSpace(Head(text)) THEN DropSpaces(Tail(text)) ELSE text

\* replace(/\s+/g, '-')
RECURSIVE Dashed(_)
Dashed(text) ==
    IF text = <<>> THEN <<>>
    ELSE IF IsSpace(Head(text)) THEN <<45>> \o Dashed(DropSpaces(text))
    ELSE <<Head(text)>> \o Dashed(Tail(text))

\* originalPrompt.toLowerCase().replace(/[^a-z0-9\s]/g, '')
\*     .replace(/\s+/g, '-').substring(0, 30)
Slug(prompt) ==
    LET lower == [k \in 1..Len(prompt) |-> ToLower(prompt[k])]
        dashed == Dashed(SelectSeq(lower, IsSlugChar))
    IN  SubSeq(dashed, 1, IF Len(dashed) < SlugLimit THEN Len(dashed) ELSE SlugLimit)

\* `${userPath}/${timestamp}_${model}_${slug}.png`
UploadName(u, t, model, prompt) == <<getUserContainerPath(u), t, model, Slug(prompt)>>

\* The uploadData request of uploadGeneratedImage: the blob name and the
\* metadata option.
UploadRequest(prompt, model, u, lbl, t) ==
    LET blobName == UploadName(u, t, model, prompt)
        shareId == generateShareId(blobName, t)
    IN  [name |-> blobName,
         metadata |-> [originalPrompt |-> prompt,
                       model |-> model,
                       generatedBy |-> "oclite-vscode",
                       timestamp |-> t,
                       userId |-> hashUserId(u),
                       userEmail |-> IF lbl = NoLabel THEN Anonymous ELSE lbl,
                       shareable |-> "true",
                       shareId |-> shareId,
                       shareUrl |-> createShareUrl(shareId)]]

NoWrite == <<>>

\* An uploadGeneratedImage call that returned: whether uploadData resolved,
\* the value returned (null or the share URL) and the messages shown.
NoUpload == [wrote |-> FALSE, ret |-> "none", shown |-> {}]

UploadReturned(wrote, ret, shown) == [wrote |-> wrote, ret |-> ret, shown |-> shown]

\* initializeBlobStorage is not running.
InitIdle == [at |-> "idle", id |-> "", label |-> NoLabel]

\* Something that identifies the user and left the process: through which
\* channel (telemetry property, log line, blob name, blob metadata), in which
\* field, and the value.
Emission(channel, what, who) == [channel |-> channel, what |-> what, who |-> who]

\* Nobody has called the blob service.
\* No listing has been fetched.
GalleryIdle ==
    /\ listing = <<>>
    /\ images = <<>>
    /\ lastMax = 0

StoreIdle ==
    /\ label = NoLabel
    /\ upPc = "idle"
    /\ upWrite = NoWrite
    /\ lastUpload = NoUpload
    /\ shareIds = {}
    /\ soPc = "idle"
    /\ initPc = InitIdle
    /\ lastInit = "none"
    /\ emitted = {}

----------------------------------------------------------------------------
\* Initial state: the extension is activated, no request is running.  The
\* session, the container client and the rate-limit window are whatever
\* activation and earlier gallery or upload commands left behind.

InitRateEntries ==
    {NoEntry}
    \cup [present : {TRUE},
          count : {MAX_REQUESTS_PER_WINDOW - 1, MAX_REQUESTS_PER_WINDOW},
          resetTime : {RATE_LIMIT_WINDOW}]

\* No generation request has been made.
HandlersIdle ==
    /\ entry = "none"
    /\ pc = "idle"
    /\ i = 0
    /\ cancelled = FALSE
    /\ cancelledAt = "none"
    /\ job = NoJob
    /\ lastSeen = "none"
    /\ genRet = RetNone
    /\ genWhy = "none"
    /\ net = NoCalls
    /\ netAfterCancel = NoCalls
    /\ outcome = "running"
    /\ failMsgs = <<>>
    /\ buttons = {}
    /\ notes = {}
    /\ localPath = NoPath
    /\ files = {}
    /\ downloadedImages = {}
    /\ shareUrl = NoShare
    /\ cloud = "none"
    /\ pendingBlob = <<>>
    /\ blobs = {}

Init ==
    /\ HandlersIdle
    /\ session \in {""} \cup Users
    /\ containerClient \in BOOLEAN
    /\ rateLimitMap \in [Users -> InitRateEntries]
    /\ now = 0
    /\ IkIdle
    /\ LimiterIdle
    /\ CacheIdle
    /\ GalleryIdle
    /\ StoreIdle

----------------------------------------------------------------------------
\* Steps shared by the handlers

GenFailsWithoutThrow(why, ret) ==
    /\ genRet' = ret
    /\ genWhy' = why
    /\ failMsgs' = Append(failMsgs, UserMessage(entry, ret))
    /\ outcome' = "failed"
    /\ pc' = "downloading"
    /\ net' = [net EXCEPT !.download = @ + 1]
    /\ UNCHANGED <<buttons, notes, netAfterCancel>>

\* The generation stage ends without a URL: the caller's catch block shows
\* one message and the handler returns.
GenFails(why, ret) ==
    /\ genRet' = ret
    /\ genWhy' = why
    /\ failMsgs' = Append(failMsgs, UserMessage(entry, ret))
    /\ outcome' = "failed"
    /\ pc' = "done"
    /\ UNCHANGED <<buttons, notes, net, netAfterCancel>>

\* The generation stage produced a URL: the chat handlers request the
\* download at once, the sidebar waits 500 ms and posts the URL.
GenSucceeds ==
    /\ genRet' = RetUrl
    /\ genWhy' = "Succeeded"
    /\ UNCHANGED <<outcome, failMsgs, buttons, notes>>
    /\ IF entry \in ChatEntries
       THEN pc' = "downloading" /\ Issue("download")
       ELSE pc' = "preparing" /\ UNCHANGED netVars

\* Head of iteration k of the poll loop: the bound, then the token, then the
\* delay.
LoopHead(k) ==
    /\ i' = k
    /\ IF k >= PollLimit(entry) THEN GenFails("Timeout", TimeoutReturn)
       ELSE IF TokenChecked(entry, k) /\ cancelled THEN GenFails("Canceled", CanceledReturn)
       ELSE /\ pc' = "waiting"
            /\ UNCHANGED <<genVars, uiVars, outcome, netVars>>

----------------------------------------------------------------------------
\* Actions

\* The handler is invoked; without an API key it reports and returns,
\* otherwise it awaits the prompt refinement.
Invoke(e, hasKey) ==
    /\ pc = "idle"
    /\ entry' = e
    /\ IF hasKey
       THEN /\ pc' = "refining"
            /\ UNCHANGED <<outcome, uiVars>>
       ELSE /\ pc' = "done"
            /\ outcome' = "aborted"
            /\ failMsgs' = Append(failMsgs, <<"OCLite service unavailable">>)
            /\ buttons' = IF e = "ext" THEN buttons \cup {"oclite.setApiKey"} ELSE buttons
            /\ UNCHANGED notes
    /\ UNCHANGED <<i, cancelled, cancelledAt, job, lastSeen, genVars, netVars, fileVars,
                   cloudVars, authVars, auxVars, now>>

\* The user cancels the chat request.
Cancel ==
    /\ entry \in ChatEntries
    /\ pc \in {"refining", "submitting", "waiting", "polling", "downloading", "uploading"}
    /\ ~cancelled
    /\ cancelled' = TRUE
    /\ cancelledAt' = job.status
    /\ UNCHANGED <<entry, pc, i, job, lastSeen, genVars, netVars, outcome,
                   uiVars, fileVars, cloudVars, authVars, auxVars, now>>

\* The refinement settles.  The chat handlers ignore its failure, test the
\* token and submit; the sidebar lets the failure end the run.
RefineDone(ok) ==
    /\ pc = "refining"
    /\ IF entry \in ChatEntries
       THEN IF cancelled
            THEN /\ pc' = "done"
                 /\ outcome' = "aborted"
                 /\ UNCHANGED <<genVars, uiVars, netVars>>
            ELSE /\ pc' = "submitting"
                 /\ Issue("submit")
                 /\ UNCHANGED <<genVars, uiVars, outcome>>
       ELSE IF ok
            THEN /\ pc' = "submitting"
                 /\ Issue("submit")
                 /\ UNCHANGED <<genVars, uiVars, outcome>>
            ELSE GenFails("RefineError", RetThrow(<<"Network Error">>))
    /\ UNCHANGED <<entry, i, cancelled, cancelledAt, job, lastSeen, fileVars, cloudVars,
                   authVars, auxVars, now>>

\* The submit POST settles: rejected by the axios cancel token, rejected by
\* the transport, or answered with the job's first status.
SubmitDone(resp, m) ==
    /\ pc = "submitting"
    /\ IF entry \in ChatEntries /\ cancelled
       THEN /\ GenFails("SubmitAborted", RetThrow(RequestErrorMsg(entry, m)))
            /\ UNCHANGED <<i, job, lastSeen>>
       ELSE IF resp = NetErr
       THEN /\ m = ""
            /\ GenFails("NetworkError", RetThrow(RequestErrorMsg(entry, resp.err)))
            /\ UNCHANGED <<i, job, lastSeen>>
       ELSE /\ m = ""
            /\ job' = resp
            /\ lastSeen' = resp.status
            /\ CASE SubmitVerdict(entry, resp) = "poll" -> LoopHead(0)
                 [] SubmitVerdict(entry, resp) = "url" -> GenSucceeds /\ UNCHANGED i
                 [] OTHER -> GenFails("Unexpected", RetNull) /\ UNCHANGED i
    /\ UNCHANGED <<entry, cancelled, cancelledAt, fileVars, cloudVars, authVars, auxVars, now>>

\* The delay of the current iteration elapses and the poll GET is sent.
WaitDone ==
    /\ pc = "waiting"
    /\ pc' = "polling"
    /\ Issue("poll")
    /\ UNCHANGED <<entry, i, cancelled, cancelledAt, job, lastSeen, genVars, outcome,
                   uiVars, fileVars, cloudVars, authVars, auxVars, now>>

\* The poll GET settles: rejected by the transport, or answered with the
\* job's current status.
PollDone(resp) ==
    /\ pc = "polling"
    /\ resp \in {job, NetErr}
    /\ IF resp = NetErr
       THEN /\ GenFails("NetworkError", RetThrow(RequestErrorMsg(entry, resp.err)))
            /\ UNCHANGED <<i, lastSeen>>
       ELSE /\ lastSeen' = resp.status
            /\ CASE PollVerdict(entry, resp) = "url" -> GenSucceeds /\ UNCHANGED i
                 [] PollVerdict(entry, resp) = "null" ->
                        GenFails(WhyOf(resp), RetNull) /\ UNCHANGED i
                 [] PollVerdict(entry, resp) = "throw" ->
                        /\ GenFails(WhyOf(resp),
                               RetThrow(BackendFailedMsg(entry, resp.status, resp.err)))
                        /\ UNCHANGED i
                 [] OTHER -> LoopHead(i + 1)
    /\ UNCHANGED <<entry, cancelled, cancelledAt, job, fileVars, cloudVars, authVars, auxVars, now>>

\* The backend moves the job; a terminal status never changes again.
BackendStep(next) ==
    /\ pc \in {"waiting", "polling"}
    /\ job.status \in NonTerminal
    /\ next # job
    /\ job' = next
    /\ UNCHANGED <<entry, pc, i, cancelled, cancelledAt, lastSeen, genVars, netVars, outcome,
                   uiVars, fileVars, cloudVars, authVars, auxVars, now>>

\* Sidebar: after the 500 ms delay the URL is posted to the webview.
PrepareDone ==
    /\ pc = "preparing"
    /\ pc' = "done"
    /\ outcome' = "ok"
    /\ UNCHANGED <<entry, i, cancelled, cancelledAt, job, lastSeen, genVars, netVars,
                   uiVars, fileVars, cloudVars, authVars, auxVars, now>>

\* The handler returns after the cloud stage: the chat participant adds the
\* share button last, the extension handler has added it before the upload.
ReturnsOk(newButtons, newNotes) ==
    /\ pc' = "done"
    /\ outcome' = "ok"
    /\ buttons' = buttons \cup newButtons
                  \cup (IF entry = "chat" THEN {"oclite.shareImage"} ELSE {})
    /\ notes' = notes \cup newNotes
    /\ UNCHANGED failMsgs

CloudExitWithoutUserTest(readOk, t) ==
    IF ~readOk THEN "readerror"
    ELSE IF ~containerClient \/ session = "" THEN "unavailable"
    ELSE IF ~RateLimitAllows(rateLimitMap, session, t) THEN "ratelimited"
    ELSE "writing"

\* Which exit the cloud stage takes once the temp file is written: no user,
\* the file cannot be read, no container client, rate limited, or the blob
\* write is sent.
CloudExit(readOk, t) ==
    IF session = "" THEN "noauth"
    ELSE IF ~readOk THEN "readerror"
    ELSE IF ~containerClient THEN "unavailable"
    ELSE IF ~RateLimitAllows(rateLimitMap, session, t) THEN "ratelimited"
    ELSE "writing"

\* The download GET settles.  On success the temp file is written and
\* registered, the save and preview buttons are handed out and the cloud
\* stage runs up to its first await, the blob write.
DownloadDone(ok, t, readOk, t2) ==
    /\ pc = "downloading"
    /\ t >= now
    /\ t2 >= t
    /\ IF ~ok
       THEN /\ t = now /\ t2 = now /\ readOk
            /\ failMsgs' = Append(failMsgs, DownloadErrorMsg(entry, "Network Error"))
            /\ outcome' = "failed"
            /\ pc' = "done"
            /\ UNCHANGED <<buttons, notes, fileVars, cloudVars, netVars, now>>
       ELSE LET path == TempPath(t)
                cl == CloudExit(readOk, t2)
                handed == {"oclite.saveImage", "oclite.previewImage"}
                          \cup (IF entry = "ext" THEN {"oclite.shareImage"} ELSE {})
            IN  /\ localPath' = path
                /\ files' = files \cup {path}
                /\ downloadedImages' = downloadedImages \cup {path}
                /\ (cl \in {"noauth", "readerror"} => t2 = t)
                /\ (cl = "noauth" => readOk)
                /\ now' = t2
                /\ UNCHANGED <<shareUrl, blobs>>
                /\ CASE cl = "noauth" ->
                          /\ ReturnsOk(handed, IF entry = "chat" THEN {"sign_in_tip"} ELSE {})
                          /\ cloud' = cl
                          /\ UNCHANGED <<pendingBlob, rateLimitMap, netVars>>
                     [] cl = "readerror" /\ CloudErrorOutcome(entry) = "ok" ->
                          /\ ReturnsOk(handed, IF entry = "chat" THEN {"cloud_unavailable_note"} ELSE {})
                          /\ cloud' = cl
                          /\ UNCHANGED <<pendingBlob, rateLimitMap, netVars>>
                     [] cl = "readerror" /\ CloudErrorOutcome(entry) # "ok" ->
                          /\ failMsgs' = Append(failMsgs, <<"EACCES">>)
                          /\ outcome' = "failed"
                          /\ pc' = "done"
                          /\ buttons' = buttons \cup handed
                          /\ cloud' = cl
                          /\ UNCHANGED <<notes, pendingBlob, rateLimitMap, netVars>>
                     [] cl = "unavailable" ->
                          /\ ReturnsOk(handed, {"sign_in_prompt"})
                          /\ cloud' = cl
                          /\ UNCHANGED <<pendingBlob, rateLimitMap, netVars>>
                     [] cl = "ratelimited" ->
                          /\ ReturnsOk(handed, {"rate_limit_warning"})
                          /\ cloud' = cl
                          /\ rateLimitMap' = RateLimitAfter(rateLimitMap, session, t2)
                          /\ UNCHANGED <<pendingBlob, netVars>>
                     [] OTHER ->
                          /\ pc' = "uploading"
                          /\ cloud' = cl
                          /\ rateLimitMap' = RateLimitAfter(rateLimitMap, session, t2)
                          /\ pendingBlob' = <<BlobFor(session, t2)>>
                          /\ Issue("blob")
                          /\ buttons' = buttons \cup handed
                          /\ UNCHANGED <<outcome, failMsgs, notes>>
    /\ UNCHANGED <<entry, i, cancelled, cancelledAt, job, lastSeen, genVars, authVars, auxVars>>

\* The blob write settles.  uploadGeneratedImage catches a rejected write,
\* and an exception of its own success path, and returns null.
UploadDone(ok) ==
    /\ pc = "uploading"
    /\ pendingBlob' = <<>>
    /\ blobs' = IF ok THEN blobs \cup {pendingBlob[1]} ELSE blobs
    /\ IF ok /\ session # ""
       THEN /\ shareUrl' = pendingBlob[1].metadata.shareUrl
            /\ cloud' = "ok"
            /\ ReturnsOk({"oclite.copyShareLink"}, {"uploaded_notification"})
       ELSE /\ shareUrl' = NoShare
            /\ cloud' = IF ok THEN "posterror" ELSE "writefailed"
            /\ ReturnsOk({}, {"upload_failed_notification"})
    /\ UNCHANGED <<entry, i, cancelled, cancelledAt, job, lastSeen, genVars, netVars,
                   fileVars, rateLimitMap, authVars, auxVars, now>>

----------------------------------------------------------------------------

Next ==
    \/ \E e \in Entries, hasKey \in BOOLEAN : Invoke(e, hasKey)
    \/ Cancel
    \/ \E ok \in BOOLEAN : RefineDone(ok)
    \/ \E resp \in JobStates \cup {NetErr}, m \in {"", "canceled"} : SubmitDone(resp, m)
    \/ WaitDone
    \/ \E resp \in JobStates \cup {NetErr} : PollDone(resp)
    \/ \E next \in JobStates : BackendStep(next)
    \/ PrepareDone
    \/ \E ok \in BOOLEAN, t \in Times, readOk \in BOOLEAN, t2 \in Times :
           DownloadDone(ok, t, readOk, t2)
    \/ \E ok \in BOOLEAN : UploadDone(ok)

Spec == Init /\ [][Next]_vars

----------------------------------------------------------------------------
\* CDN uploader: uploadToImageKit, called on its own

\* State the CDN uploader does not touch.
notIkVars == <<pipelineVars, limiterVars, cacheVars, storeVars, galleryVars>>

\* Head of iteration a of the retry loop: the next upload call, or the exit
\* that reports the exhausted retries and returns null.
IkLoopHead(a, err) ==
    /\ attempt' = a
    /\ IF LoopContinues(a)
       THEN /\ ikPc' = "uploading"
            /\ UNCHANGED <<ikReturn, ikTelemetry>>
       ELSE /\ ikPc' = "returned"
            /\ ikReturn' = IkNull
            /\ ikTelemetry' = Append(ikTelemetry,
                                  [name |-> "imagekit.upload.error",
                                   error |-> IF err = "" THEN "unknown" ELSE err,
                                   attempt |-> MAX_RETRIES])

\* uploadToImageKit is called and runs up to its first upload call.
IkCall ==
    /\ ikPc = "idle"
    /\ lastError' = ""
    /\ IkLoopHead(1, "")
    /\ UNCHANGED <<ikResults, ikDelays, notIkVars>>

\* client.files.upload settles.
IkUploadDone(resp) ==
    /\ ikPc = "uploading"
    /\ ikResults' = Append(ikResults, [attempt |-> attempt, how |-> SettledAs(resp),
                                       message |-> resp.message])
    /\ CASE SettledAs(resp) = "url" ->
              /\ ikPc' = "returned"
              /\ ikReturn' = IkResult(resp)
              /\ ikTelemetry' = Append(ikTelemetry,
                                    [name |-> "imagekit.upload.success",
                                     error |-> "", attempt |-> attempt])
              /\ UNCHANGED <<attempt, lastError, ikDelays>>
         [] SettledAs(resp) = "nourl" ->
              /\ lastError' = "Upload returned no URL"
              /\ IF DelayAfter("nourl", attempt) > 0
                 THEN /\ ikPc' = "delaying"
                      /\ ikDelays' = Append(ikDelays,
                              [after |-> attempt, ms |-> DelayAfter("nourl", attempt)])
                      /\ UNCHANGED <<attempt, ikReturn, ikTelemetry>>
                 ELSE /\ IkLoopHead(attempt + 1, "Upload returned no URL")
                      /\ UNCHANGED ikDelays
         [] OTHER ->
              /\ lastError' = resp.message
              /\ IF DelayAfter("rejected", attempt) > 0
                 THEN /\ ikPc' = "delaying"
                      /\ ikDelays' = Append(ikDelays,
                              [after |-> attempt, ms |-> DelayAfter("rejected", attempt)])
                      /\ UNCHANGED <<attempt, ikReturn, ikTelemetry>>
                 ELSE /\ IkLoopHead(attempt + 1, resp.message)
                      /\ UNCHANGED ikDelays
    /\ UNCHANGED notIkVars

\* The backoff delay elapses.
IkDelayDone ==
    /\ ikPc = "delaying"
    /\ IkLoopHead(attempt + 1, lastError)
    /\ UNCHANGED <<lastError, ikResults, ikDelays, notIkVars>>

CdnNext ==
    \/ IkCall
    \/ \E resp \in IkResponses : IkUploadDone(resp)
    \/ IkDelayDone

\* The SDK call settles within its 60 s timeout and a timer fires.
CdnSpec ==
    /\ Init
    /\ [][CdnNext]_vars
    /\ WF_vars(\E resp \in IkResponses : IkUploadDone(resp))
    /\ WF_vars(IkDelayDone)

----------------------------------------------------------------------------
\* Rate limiter: the gated commands, called on their own

\* State the gated commands do not touch.
notGatedVars == <<entry, pc, i, cancelled, cancelledAt, job, lastSeen, genVars,
                  netVars, outcome, uiVars, fileVars, shareUrl, cloud,
                  pendingBlob, ikVars, cacheVars, storeVars, galleryVars>>

\* checkRateLimit(_currentUserSession.account.id) at the current clock reading.
GatedCheck ==
    /\ lastCheck' = CheckOf(rateLimitMap, session, now)
    /\ rateLimitMap' = RateLimitAfter(rateLimitMap, session, now)
    /\ allowedAt' = IF session = Observed /\ RateLimitAllows(rateLimitMap, session, now)
                    THEN [allowedAt EXCEPT ![now] = @ + 1]
                    ELSE allowedAt

\* What a gated command does: without a client or a session it returns its
\* empty value at once; rate limited, it returns it after the check; otherwise
\* it makes its one object-store call and returns the result, or the empty
\* value when the call fails.
Gated(op, empty, full, ok) ==
    IF ~containerClient \/ session = ""
    THEN /\ gated' = [op |-> op, ret |-> empty, denied |-> FALSE, storeCalls |-> 0]
         /\ UNCHANGED <<lastCheck, rateLimitMap, allowedAt>>
    ELSE /\ GatedCheck
         /\ IF ~RateLimitAllows(rateLimitMap, session, now)
            THEN gated' = [op |-> op, ret |-> empty, denied |-> TRUE, storeCalls |-> 0]
            ELSE gated' = [op |-> op, ret |-> IF ok THEN full ELSE empty,
                           denied |-> FALSE, storeCalls |-> 1]

\* uploadGeneratedImage, from the call to its return.
UploadGenerated(ok) ==
    /\ pc = "idle"
    /\ Gated("upload", "null", "shareUrl", ok)
    /\ blobs' = IF gated'.ret = "shareUrl" THEN blobs \cup {BlobFor(session, now)} ELSE blobs
    /\ UNCHANGED <<now, authVars, notGatedVars>>

\* fetchImageGallery, from the call to its return.
FetchGallery(ok) ==
    /\ pc = "idle"
    /\ Gated("gallery", "[]", "images", ok)
    /\ UNCHANGED <<now, blobs, authVars, notGatedVars>>

\* Time passes.
ClockAdvances(t) ==
    /\ t > now
    /\ now' = t
    /\ allowedAt' = Recent(allowedAt, t)
    /\ UNCHANGED <<lastCheck, gated, rateLimitMap, blobs, authVars, notGatedVars>>

\* Another account signs in: sign out, then sign in and initialise the
\* container client.
SwitchUser(u) ==
    /\ pc = "idle"
    /\ u # session
    /\ session' = u
    /\ containerClient' = TRUE
    /\ UNCHANGED <<now, lastCheck, allowedAt, gated, rateLimitMap, blobs, notGatedVars>>

\* One account uses the gallery and uploads.
RateNext ==
    \/ \E ok \in BOOLEAN : UploadGenerated(ok)
    \/ \E ok \in BOOLEAN : FetchGallery(ok)
    \/ \E t \in RateTimes : ClockAdvances(t)
    \/ SwitchUser(Observed)

\* Two accounts use the gallery in turn.
SharedNext ==
    \/ \E ok \in BOOLEAN : FetchGallery(ok)
    \/ \E t \in RateTimes : ClockAdvances(t)
    \/ \E u \in RateUsers : SwitchUser(u)

\* The extension is activated with nobody signed in and an empty map.
RateInit ==
    /\ HandlersIdle
    /\ session = ""
    /\ containerClient = FALSE
    /\ rateLimitMap = [u \in RateUsers |-> NoEntry]
    /\ now = 0
    /\ IkIdle
    /\ LimiterIdle
    /\ CacheIdle
    /\ GalleryIdle
    /\ StoreIdle

RateSpec == RateInit /\ [][RateNext]_vars

SharedSpec == RateInit /\ [][SharedNext]_vars

----------------------------------------------------------------------------
\* Temp cache: two chat requests store, upload and expire; the steps of the
\* save and preview commands and of a restart

\* State the temp cache steps do not touch.
notCacheVars == <<entry, pc, i, cancelled, cancelledAt, job, lastSeen, genVars, netVars,
                  outcome, failMsgs, buttons, localPath, shareUrl, cloud, pendingBlob,
                  authVars, ikVars, limiterVars, storeVars, galleryVars>>

cleanupForgetsUnlink(path, unlinkOk) ==
    /\ lastCleanup' = [path |-> path, existed |-> path \in files,
                       threw |-> path \in files /\ ~unlinkOk, flip |-> ~lastCleanup.flip]
    /\ unlinkFailed' = (unlinkFailed \/ (path \in files /\ ~unlinkOk))
    /\ files' = files
    /\ downloadedImages' = IF path \in files /\ unlinkOk
                           THEN downloadedImages \ {path} ELSE downloadedImages

\* cleanupTempFile(p): unlink and unregister the file if it exists; an
\* exception of unlinkSync is swallowed.
cleanupTempFile(path, unlinkOk) ==
    /\ lastCleanup' = [path |-> path, existed |-> path \in files,
                       threw |-> path \in files /\ ~unlinkOk, flip |-> ~lastCleanup.flip]
    /\ unlinkFailed' = (unlinkFailed \/ (path \in files /\ ~unlinkOk))
    /\ IF path \in files /\ unlinkOk
       THEN /\ files' = files \ {path}
            /\ downloadedImages' = downloadedImages \ {path}
       ELSE UNCHANGED <<files, downloadedImages>>

\* downloadToTemp of run r after its GET resolved: the file is written and
\* registered and its TTL timer is set.
StoreDone(r, t) ==
    /\ ~deactivated
    /\ runPath[r] = NoPath
    /\ t >= now /\ t + TTL_MS \in CacheTimes
    /\ now' = t
    /\ files' = files \cup {TempPath(t)}
    /\ downloadedImages' = downloadedImages \cup {TempPath(t)}
    /\ timers' = timers \cup {TimerFor(r, TempPath(t), t)}
    /\ runPath' = [runPath EXCEPT ![r] = TempPath(t)]
    /\ UNCHANGED <<runKey, lastCleanup, unlinkFailed, deactivated, notes, blobs,
                   rateLimitMap, saveVars, restartVars, notCacheVars>>

\* The cloud stage of run r: its temp file is read and uploadGeneratedImage
\* writes the blob.
BlobWritten(r, t) ==
    /\ ~deactivated
    /\ runPath[r] \in files
    /\ runKey[r] = NoKey
    /\ t >= now /\ t \in CacheTimes
    /\ CloudExit(TRUE, t) = "writing"
    /\ now' = t
    /\ rateLimitMap' = RateLimitAfter(rateLimitMap, session, t)
    /\ blobs' = blobs \cup {BlobFor(session, t)}
    /\ runKey' = [runKey EXCEPT ![r] = BlobFor(session, t).name]
    /\ UNCHANGED <<timers, runPath, lastCleanup, unlinkFailed, deactivated, notes,
                   files, downloadedImages, saveVars, restartVars, notCacheVars>>

\* oclite.saveImage with the path handed to run r's button, up to its first
\* await: an error when the file is gone, otherwise generateName is called.
SaveBegin(r) ==
    /\ ~deactivated
    /\ savePc[r] = "idle"
    /\ runPath[r] # NoPath
    /\ IF runPath[r] \in files
       THEN /\ savePc' = [savePc EXCEPT ![r] = "naming"]
            /\ UNCHANGED <<notes, lastSave>>
       ELSE /\ notes' = notes \cup SaveNote("not_found")
            /\ lastSave' = "not_found"
            /\ savePc' = savePc
    /\ UNCHANGED <<timers, runPath, runKey, lastCleanup, unlinkFailed, deactivated,
                   lastPreview, restartVars, now, files, downloadedImages,
                   blobs, rateLimitMap, notCacheVars>>

\* generateName settled (a rejection falls back to the default name); the
\* save dialog is shown.
SaveNamed(r) ==
    /\ savePc[r] = "naming"
    /\ savePc' = [savePc EXCEPT ![r] = "dialog"]
    /\ UNCHANGED <<timers, runPath, runKey, lastCleanup, unlinkFailed, deactivated,
                   lastSave, lastPreview, restartVars, now, notes, files,
                   downloadedImages, blobs, rateLimitMap, notCacheVars>>

\* The save dialog closed: with a target chosen the temp file is read and
\* written to the target, the message is shown and cleanupTempFile runs; an
\* exception of the read or the write is shown as an error.
SaveDialogDone(r, chosen, writeOk, unlinkOk) ==
    /\ savePc[r] = "dialog"
    /\ savePc' = [savePc EXCEPT ![r] = "idle"]
    /\ LET out == SaveOutcome(runPath[r] \in files, chosen, writeOk) IN
         /\ lastSave' = out
         /\ notes' = notes \cup SaveNote(out)
         /\ IF CleansUpAfter(out)
            THEN cleanupTempFile(runPath[r], unlinkOk)
            ELSE UNCHANGED <<files, downloadedImages, lastCleanup, unlinkFailed>>
    /\ UNCHANGED <<timers, runPath, runKey, deactivated, lastPreview, restartVars, now,
                   blobs, rateLimitMap, notCacheVars>>

\* oclite.previewImage with the path handed to run r's button: the file is
\* opened in an editor when it exists, otherwise an error is shown.
PreviewImage(r) ==
    /\ ~deactivated
    /\ runPath[r] # NoPath
    /\ lastPreview' = [path |-> runPath[r], opened |-> runPath[r] \in files,
                       flip |-> ~lastPreview.flip]
    /\ notes' = notes \cup (IF runPath[r] \in files THEN {}
                            ELSE {"preview_failed_not_found"})
    /\ UNCHANGED <<timers, runPath, runKey, lastCleanup, unlinkFailed, deactivated,
                   savePc, lastSave, restartVars, now, files, downloadedImages,
                   blobs, rateLimitMap, notCacheVars>>

\* A TTL timer fires.
TimerFires(tm, unlinkOk) ==
    /\ ~deactivated
    /\ tm \in timers
    /\ now >= tm.due
    /\ timers' = timers \ {tm}
    /\ cleanupTempFile(tm.path, unlinkOk)
    /\ UNCHANGED <<runPath, runKey, deactivated, now, notes, blobs, rateLimitMap,
                   saveVars, restartVars, notCacheVars>>

\* deactivate / cleanupAll: every file of the temp directory is unlinked,
\* failures are ignored, the map is cleared; the timers die with the process.
Deactivate(failing) ==
    /\ ~deactivated
    /\ failing \subseteq files
    /\ deactivated' = TRUE
    /\ files' = failing
    /\ downloadedImages' = {}
    /\ timers' = {}
    /\ unlinkFailed' = (unlinkFailed \/ failing # {})
    /\ UNCHANGED <<runPath, runKey, lastCleanup, now, notes, blobs, rateLimitMap,
                   saveVars, restartVars, notCacheVars>>

\* activate in a new extension host after a deactivation: the module-level
\* map starts empty, no timer and no command call survive; the temp
\* directory is not read.
Activate ==
    /\ deactivated
    /\ restarts < MaxRestarts
    /\ deactivated' = FALSE
    /\ restarts' = restarts + 1
    /\ leftAtActivation' = files
    /\ downloadedImages' = {}
    /\ timers' = {}
    /\ savePc' = [r \in RunIds |-> "idle"]
    /\ UNCHANGED <<runPath, runKey, lastCleanup, unlinkFailed, lastSave,
                   lastPreview, now, notes, files, blobs, rateLimitMap, notCacheVars>>

\* Time passes.
TimePasses(t) ==
    /\ ~deactivated
    /\ t \in CacheTimes
    /\ t > now
    /\ now' = t
    /\ UNCHANGED <<cacheVars, notes, files, downloadedImages, blobs, rateLimitMap,
                   notCacheVars>>

CacheNext ==
    \/ \E r \in RunIds, t \in CacheTimes : StoreDone(r, t)
    \/ \E r \in RunIds, t \in CacheTimes : BlobWritten(r, t)
    \/ \E tm \in CacheTimers, unlinkOk \in BOOLEAN : TimerFires(tm, unlinkOk)
    \/ \E failing \in SUBSET CachePaths : Deactivate(failing)
    \/ \E t \in CacheTimes : TimePasses(t)

\* Account u1 is signed in with a container client.
CacheInit ==
    /\ HandlersIdle
    /\ session = "u1"
    /\ containerClient = TRUE
    /\ rateLimitMap \in [Users -> InitRateEntries]
    /\ now = 0
    /\ IkIdle
    /\ LimiterIdle
    /\ CacheIdle
    /\ GalleryIdle
    /\ StoreIdle

\* Timers fire once due, and the clock moves on.
CacheSpec ==
    /\ CacheInit
    /\ [][CacheNext]_vars
    /\ WF_vars(\E tm \in CacheTimers, unlinkOk \in BOOLEAN : TimerFires(tm, unlinkOk))
    /\ WF_vars(\E t \in CacheTimes : TimePasses(t))

----------------------------------------------------------------------------
\* Blob service: initialise, upload, gallery, sign out, clear the session

\* State the blob service does not touch.
notServiceVars == <<entry, pc, i, cancelled, cancelledAt, job, lastSeen, genVars, netVars,
                    outcome, uiVars, fileVars, shareUrl, cloud, pendingBlob,
                    ikVars, cacheVars>>

notStoreVars == <<notServiceVars, galleryVars>>

\* isBlobStorageAvailable()
isBlobStorageAvailable == containerClient /\ session # ""

\* Clock readings of the blob service, within one rate-limit window.
StoreTimes == {0, RATE_LIMIT_WINDOW \div 2}

\* uploadGeneratedImage up to its await: without a client or a session the
\* sign-in prompt is shown; rate limited, null is returned; otherwise the
\* name, the share id and the metadata are derived and uploadData is called.
UploadBegin(prompt, model) ==
    /\ upPc = "idle"
    /\ IF ~containerClient \/ session = ""
       THEN /\ lastUpload' = UploadReturned(FALSE, "null", {"sign_in_prompt"})
            /\ UNCHANGED <<upPc, upWrite, shareIds, rateLimitMap, emitted>>
       ELSE IF ~RateLimitAllows(rateLimitMap, session, now)
       THEN /\ lastUpload' = UploadReturned(FALSE, "null", {"rate_limit_warning"})
            /\ emitted' = emitted \cup {Emission("telemetry", "userId", hashUserId(session))}
            /\ rateLimitMap' = RateLimitAfter(rateLimitMap, session, now)
            /\ UNCHANGED <<upPc, upWrite, shareIds>>
       ELSE LET req == UploadRequest(prompt, model, session, label, now) IN
            /\ rateLimitMap' = RateLimitAfter(rateLimitMap, session, now)
            /\ upPc' = "writing"
            /\ upWrite' = req
            /\ shareIds' = shareIds \cup
                     {[prompt |-> prompt, model |-> model, id |-> req.metadata.shareId]}
            /\ emitted' = emitted \cup
                     {Emission("key", "blobName", req.name[1][2]),
                      Emission("metadata", "userId", req.metadata.userId),
                      Emission("metadata", "userEmail", req.metadata.userEmail)}
            /\ UNCHANGED lastUpload
    /\ UNCHANGED <<label, soPc, initPc, lastInit, blobs, authVars, now, limiterVars,
                   notStoreVars>>

\* uploadData settled.  Resolved: the share URL is logged and shown, the
\* success event reads _currentUserSession.account.id, and the share URL is
\* returned; a TypeError of that read lands in the catch like a rejection of
\* uploadData: the error is shown and null is returned.
UploadSettled(ok) ==
    /\ upPc = "writing"
    /\ upPc' = "idle"
    /\ upWrite' = NoWrite
    /\ blobs' = IF ok THEN blobs \cup {upWrite} ELSE blobs
    /\ IF ok /\ session # ""
       THEN /\ emitted' = emitted \cup {Emission("telemetry", "userId", hashUserId(session))}
            /\ lastUpload' = UploadReturned(TRUE, "url", {"uploaded"})
       ELSE /\ emitted' = emitted
            /\ lastUpload' = UploadReturned(ok, "null",
                                 (IF ok THEN {"uploaded"} ELSE {}) \cup {"upload_failed"})
    /\ UNCHANGED <<label, shareIds, soPc, initPc, lastInit, rateLimitMap, authVars, now,
                   limiterVars, notStoreVars>>

\* fetchImageGallery, from the call to its return, with its telemetry.
GalleryCall(ok) ==
    /\ Gated("gallery", "[]", "images", ok)
    /\ emitted' = emitted \cup
             (IF gated'.denied \/ gated'.ret = "images"
              THEN {Emission("telemetry", "userId", hashUserId(session))}
              ELSE {})
    /\ UNCHANGED <<label, upPc, upWrite, lastUpload, shareIds, soPc, initPc, lastInit,
                   blobs, authVars, now, notStoreVars>>

\* initializeBlobStorage up to its first await: authenticateUser returns the
\* cached session, and then the clients are created and createIfNotExists
\* is called, or it asks the authentication provider.
InitBegin ==
    /\ initPc = InitIdle
    /\ lastInit' = "running"
    /\ IF session # ""
       THEN /\ initPc' = [at |-> "container", id |-> session, label |-> label]
            /\ containerClient' = TRUE
       ELSE /\ initPc' = [at |-> "auth", id |-> "", label |-> NoLabel]
            /\ UNCHANGED containerClient
    /\ UNCHANGED <<session, label, upPc, upWrite, lastUpload, shareIds, soPc, emitted,
                   blobs, rateLimitMap, now, limiterVars, notStoreVars>>

\* getSession settled: the session is cached, the clients are created and
\* createIfNotExists is called; without a session local mode is logged.
InitAuthDone(u, lbl, ok) ==
    /\ initPc.at = "auth"
    /\ IF ok
       THEN /\ session' = u
            /\ label' = lbl
            /\ containerClient' = TRUE
            /\ initPc' = [at |-> "container", id |-> u, label |-> lbl]
            /\ emitted' = emitted \cup {Emission("telemetry", "userId", hashUserId(u))}
            /\ UNCHANGED lastInit
       ELSE /\ initPc' = InitIdle
            /\ lastInit' = "no_auth"
            /\ UNCHANGED <<session, label, containerClient, emitted>>
    /\ UNCHANGED <<upPc, upWrite, lastUpload, shareIds, soPc, blobs, rateLimitMap, now,
                   limiterVars, notStoreVars>>

\* createIfNotExists settled: readiness is logged with the account label, or
\* the error is shown; neither the try block nor the catch assigns the
\* clients again.
InitContainerDone(ok) ==
    /\ initPc.at = "container"
    /\ initPc' = InitIdle
    /\ lastInit' = IF ok THEN "ready" ELSE "failed"
    /\ emitted' = IF ok
                  THEN emitted \cup {Emission("log", "label", initPc.label),
                                    Emission("telemetry", "userId", hashUserId(initPc.id))}
                  ELSE emitted
    /\ UNCHANGED <<session, label, containerClient, upPc, upWrite, lastUpload, shareIds,
                   soPc, blobs, rateLimitMap, now, limiterVars, notStoreVars>>

\* signOutUser up to its await.
SignOutBegin ==
    /\ soPc = "idle"
    /\ session # ""
    /\ soPc' = "waiting"
    /\ UNCHANGED <<label, upPc, upWrite, lastUpload, shareIds, initPc, lastInit, emitted,
                   blobs, rateLimitMap, authVars, now, limiterVars, notStoreVars>>

\* getSession({clearSessionPreference}) settled: the sign-out event reads
\* _currentUserSession.account.id and the session is dropped; a rejection, or
\* a TypeError of that read, is shown as a failed sign-out.
SignOutDone(ok) ==
    /\ soPc = "waiting"
    /\ soPc' = "idle"
    /\ IF ok /\ session # ""
       THEN /\ emitted' = emitted \cup {Emission("telemetry", "userId", hashUserId(session))}
            /\ session' = ""
            /\ label' = NoLabel
       ELSE UNCHANGED <<session, label, emitted>>
    /\ UNCHANGED <<containerClient, upPc, upWrite, lastUpload, shareIds, initPc, lastInit,
                   blobs, rateLimitMap, now, limiterVars, notStoreVars>>

\* clearStorageSettings.
ClearSettings ==
    /\ containerClient \/ session # ""
    /\ containerClient' = FALSE
    /\ session' = ""
    /\ label' = NoLabel
    /\ UNCHANGED <<upPc, upWrite, lastUpload, shareIds, soPc, initPc, lastInit, emitted,
                   blobs, rateLimitMap, now, limiterVars, notStoreVars>>

\* Time passes.
StoreTick(t) ==
    /\ t \in StoreTimes
    /\ t > now
    /\ now' = t
    /\ UNCHANGED <<storeVars, blobs, rateLimitMap, authVars, limiterVars, notStoreVars>>

\* The rate limiter has two requests left in the running window.
TwoRequestsLeft ==
    [u \in Users |-> [present |-> TRUE, count |-> MAX_REQUESTS_PER_WINDOW - 2,
                      resetTime |-> RATE_LIMIT_WINDOW]]

\* The prompt and the model uploaded while the session changes: "A", oclite.
SessionPrompts == {<<65>>}
SessionModels == {<<111>>}

\* The session comes and goes while uploads and gallery calls are made.
SessionNext ==
    \/ \E prompt \in SessionPrompts, model \in SessionModels : UploadBegin(prompt, model)
    \/ \E ok \in BOOLEAN : UploadSettled(ok)
    \/ \E ok \in BOOLEAN : GalleryCall(ok)
    \/ InitBegin
    \/ \E u \in Users, lbl \in Labels, ok \in BOOLEAN : InitAuthDone(u, lbl, ok)
    \/ \E ok \in BOOLEAN : InitContainerDone(ok)
    \/ SignOutBegin
    \/ \E ok \in BOOLEAN : SignOutDone(ok)
    \/ ClearSettings

\* The extension has been loaded and initializeBlobStorage has not run yet.
SessionInit ==
    /\ HandlersIdle
    /\ session = ""
    /\ containerClient = FALSE
    /\ rateLimitMap = TwoRequestsLeft
    /\ now = 0
    /\ IkIdle
    /\ LimiterIdle
    /\ CacheIdle
    /\ GalleryIdle
    /\ StoreIdle

SessionSpec == SessionInit /\ [][SessionNext]_vars

\* A signed-in account uploads any prompt, and again later.
UploadNext ==
    \/ \E prompt \in Prompts, model \in Models : UploadBegin(prompt, model)
    \/ \E ok \in BOOLEAN : UploadSettled(ok)
    \/ \E t \in StoreTimes : StoreTick(t)

\* An account is signed in and the container client exists.
UploadInit ==
    /\ HandlersIdle
    /\ session \in Users
    /\ containerClient = TRUE
    /\ rateLimitMap = TwoRequestsLeft
    /\ now = 0
    /\ IkIdle
    /\ LimiterIdle
    /\ CacheIdle
    /\ GalleryIdle
    /\ label \in Labels
    /\ upPc = "idle"
    /\ upWrite = NoWrite
    /\ lastUpload = NoUpload
    /\ shareIds = {}
    /\ soPc = "idle"
    /\ initPc = InitIdle
    /\ lastInit = "ready"
    /\ emitted = {}

UploadSpec == UploadInit /\ [][UploadNext]_vars

\* ---------------------------------------------------------------------------
\* Gallery: fetchImageGallery over a listing of the store
\* ---------------------------------------------------------------------------

\* Largest upload time and last-modified time of a listed blob.
MaxStamp == 3

\* Largest maxResults argument tried besides the gallery command's.
MaxResultsArg == 2

\* oclite.viewGallery calls fetchImageGallery(20).
GalleryLimit == 20

MaxResultsArgs == (0..MaxResultsArg) \cup {GalleryLimit}

\* metadata.userId written by somebody else under the user's prefix.
ForeignOwner == <<"sha256/8", "other">>

\* A listed blob: its name users/<hash>/<upload time>-..., its last-modified
\* time and its metadata.userId.
Listed(u, t, lm, owner) ==
    [name |-> <<getUserContainerPath(u), t>>, lastModified |-> lm, userId |-> owner]

\* listBlobsFlat yields the blobs in name order, that is, by upload time.
RECURSIVE ListingsFrom(_, _)
ListingsFrom(u, t) ==
    IF t > MaxStamp THEN {<<>>}
    ELSE LET rest == ListingsFrom(u, t + 1) IN
         rest \cup {<<Listed(u, t, lm, owner)>> \o r :
                       lm \in t..MaxStamp, owner \in {hashUserId(u), ForeignOwner},
                       r \in rest}

\* One image more than the gallery command asks for, none of them modified
\* since its upload.
FullListing(u) ==
    [k \in 1..(GalleryLimit + 1) |-> Listed(u, k, k, hashUserId(u))]

Listings(u) == ListingsFrom(u, 1) \cup {FullListing(u)}

OwnedByPrefix(blob, uid) == blob.name[1][2] = uid

\* blob.metadata?.userId !== uid
Owned(blob, uid) == blob.userId = uid

\* The for-await loop: stop once maxResults images are collected, skip a blob
\* whose metadata.userId is not the caller's hash, push the others.
RECURSIVE Collect(_, _, _, _, _)
Collect(list, k, uid, maxResults, acc) ==
    IF k > Len(list) \/ Len(acc) >= maxResults THEN acc
    ELSE IF ~Owned(list[k], uid) THEN Collect(list, k + 1, uid, maxResults, acc)
    ELSE Collect(list, k + 1, uid, maxResults, Append(acc, list[k]))

\* Array.prototype.sort with (a, b) => b.lastModified - a.lastModified: stable,
\* newest first.
RECURSIVE InsertNewestFirst(_, _)
InsertNewestFirst(sorted, x) ==
    IF sorted = <<>> THEN <<x>>
    ELSE IF Head(sorted).lastModified >= x.lastModified
         THEN <<Head(sorted)>> \o InsertNewestFirst(Tail(sorted), x)
         ELSE <<x>> \o sorted

RECURSIVE SortNewestFirst(_, _)
SortNewestFirst(list, k) ==
    IF k = 0 THEN <<>>
    ELSE InsertNewestFirst(SortNewestFirst(list, k - 1), list[k])

\* The try block of fetchImageGallery.
fetchImageGallery(list, u, maxResults) ==
    LET collected == Collect(list, 1, hashUserId(u), maxResults, <<>>) IN
    SortNewestFirst(collected, Len(collected))

\* fetchImageGallery(maxResults), from the call to its return.
GalleryFetch(maxResults, ok) ==
    /\ Gated("gallery", "[]", "images", ok)
    /\ lastMax' = maxResults
    /\ images' = IF gated'.ret = "images"
                 THEN fetchImageGallery(listing, session, maxResults)
                 ELSE <<>>
    /\ emitted' = emitted \cup
             (IF gated'.denied \/ gated'.ret = "images"
              THEN {Emission("telemetry", "userId", hashUserId(session))}
              ELSE {})
    /\ UNCHANGED <<listing, label, upPc, upWrite, lastUpload, shareIds, soPc, initPc,
                   lastInit, blobs, authVars, now, notServiceVars>>

GalleryNext ==
    \E maxResults \in MaxResultsArgs, ok \in BOOLEAN : GalleryFetch(maxResults, ok)

\* An account is signed in, the container client exists, and the store holds
\* any listing under the account's prefix.
GalleryInit ==
    /\ HandlersIdle
    /\ session \in Users
    /\ containerClient = TRUE
    /\ rateLimitMap = TwoRequestsLeft
    /\ now = 0
    /\ IkIdle
    /\ LimiterIdle
    /\ CacheIdle
    /\ StoreIdle
    /\ listing \in Listings(session)
    /\ images = <<>>
    /\ lastMax = 0

GallerySpec == GalleryInit /\ [][GalleryNext]_vars

----------------------------------------------------------------------------
\* Temp cache: one chat request's file is stored, previewed, saved, expired,
\* swept at shutdown and found again by the next activation

\* The request whose buttons are used.
SaveRuns == {"A"}

SaveNext ==
    \/ \E r \in SaveRuns, t \in CacheTimes : StoreDone(r, t)
    \/ \E r \in SaveRuns : SaveBegin(r)
    \/ \E r \in SaveRuns : SaveNamed(r)
    \/ \E r \in SaveRuns, chosen \in BOOLEAN, writeOk \in BOOLEAN, unlinkOk \in BOOLEAN :
          SaveDialogDone(r, chosen, writeOk, unlinkOk)
    \/ \E r \in SaveRuns : PreviewImage(r)
    \/ \E tm \in CacheTimers, unlinkOk \in BOOLEAN : TimerFires(tm, unlinkOk)
    \/ \E failing \in SUBSET CachePaths : Deactivate(failing)
    \/ Activate
    \/ \E t \in CacheTimes : TimePasses(t)

\* Timers fire once due, and the clock moves on.
SaveSpec ==
    /\ CacheInit
    /\ [][SaveNext]_vars
    /\ WF_vars(\E tm \in CacheTimers, unlinkOk \in BOOLEAN : TimerFires(tm, unlinkOk))
    /\ WF_vars(\E t \in CacheTimes : TimePasses(t))

----------------------------------------------------------------------------
\* Properties

CloudFailures == {"readerror", "unavailable", "ratelimited", "writefailed", "posterror"}

\* C1, as stated: whenever the poll loop runs out of attempts, exactly 30
\* poll requests have been made, in every entry point.
C1_ThirtyEverywhere == genWhy = "Timeout" => net.poll = 30

\* C1, amended: the poll loop never makes more than 30 requests in the chat
\* handlers and 60 in the sidebar; when it runs out of attempts it has made
\* exactly that many, the run is over and one failure message is shown.
C1_PollBounded ==
    LET limit == IF entry = "sidebar" THEN 60 ELSE 30
    IN  /\ net.poll <= limit
        /\ genWhy = "Timeout" =>
              /\ net.poll = limit
              /\ pc = "done"
              /\ outcome = "failed"
              /\ failMsgs = <<NullUrlMsg(entry)>>

C1_Witness == genWhy = "Timeout" /\ entry = "chat" /\ lastSeen \in NonTerminal

\* C2, as stated: no submit and no poll request is issued once the token is
\* signaled.
C2_NoRequestAfterSignal == netAfterCancel.submit = 0 /\ netAfterCancel.poll = 0

\* C2, amended: no submit is issued once the token is signaled, and at most
\* one poll request is: the one of the iteration whose token test had already
\* passed when the signal came during its delay.
C2_AtMostOnePollAfterSignal ==
    /\ netAfterCancel.submit = 0
    /\ netAfterCancel.poll <= 1
    /\ (cancelled /\ pc = "waiting") => netAfterCancel.poll = 0

C2_Witness == genWhy = "Canceled" /\ netAfterCancel.poll = 1

\* C3: when the token is signaled after the job has succeeded, no download
\* request is issued afterwards.
C3_NoDownloadAfterSignal == cancelledAt = "succeeded" => netAfterCancel.download = 0

C5_TerminalIsFinal ==
    [][(lastSeen \in Terminal) =>
           ((net.poll)' = net.poll /\ (genRet # RetNone => genRet' = genRet))]_vars

\* C6: a URL is returned without polling only for a succeeded submit
\* response, and after a queued, starting or processing submit response the
\* handler goes on to poll.
C6_NonTerminalSubmitPolls ==
    net.poll = 0 =>
        /\ genRet = RetUrl => lastSeen = "succeeded"
        /\ lastSeen \in NonTerminal => pc = "waiting"

\* C7: a download is requested only after the generation returned a URL, a
\* CDN upload only after the download returned a path, and a blob write only
\* after a CDN upload.
C7_StagesInOrder ==
    /\ net.download > 0 => genRet = RetUrl
    /\ net.cdn > 0 => localPath # NoPath
    /\ net.blob > 0 => (localPath # NoPath /\ net.cdn > 0)

\* C8: when the run has failed it is over, no download was requested unless
\* the generation had returned a URL, no CDN upload and no blob write was
\* requested, no temp file exists and none was handed out, and exactly one
\* non-empty failure message was shown.
C8_MandatoryFailureIsTerminal ==
    outcome = "failed" =>
        /\ pc = "done"
        /\ genRet # RetUrl => net.download = 0
        /\ net.cdn = 0 /\ net.blob = 0
        /\ localPath = NoPath /\ files = {} /\ downloadedImages = {}
        /\ buttons \cap {"oclite.saveImage", "oclite.previewImage"} = {}
        /\ Len(failMsgs) = 1
        /\ failMsgs[1] # <<>>

C8_Witness == outcome = "failed" /\ genRet = RetUrl /\ net.download = 1

\* C9: when the cloud stage fails after a successful download, the run ends
\* successfully with its temp file on disk and handed to the user, without a
\* share URL and without a failure message.
C9_CloudFailureDegrades ==
    (pc = "done" /\ cloud \in CloudFailures) =>
        /\ outcome = "ok"
        /\ localPath # NoPath /\ localPath \in files
        /\ "oclite.saveImage" \in buttons
        /\ shareUrl = NoShare
        /\ "oclite.copyShareLink" \notin buttons
        /\ failMsgs = <<>>

C9_Witness == pc = "done" /\ cloud = "writefailed" /\ net.blob = 1

\* C10: every blob written was preceded by a CDN upload of the same run and
\* carries the CDN URL in its metadata.
C10_WriteFollowsCdn ==
    \A b \in blobs : net.cdn > 0 /\ "imageKitUrl" \in DOMAIN b.metadata

C12_FailureValueCarriesError ==
    (ikPc = "returned" /\ Len(ikResults) = 3 /\ ikResults[3].how # "url") =>
        \E f \in DOMAIN ikReturn : ikReturn[f] = lastError

\* C12, amended: a call makes at most 3 upload calls, numbered 1, 2, 3; it
\* returns at the first one that yields a URL, with that URL; after three
\* failed ones it returns null, and the last error is recorded only in the
\* one telemetry event it sends; every call that has begun returns.
C12_BoundedRetry ==
    /\ [](/\ Len(ikResults) <= 3
          /\ attempt <= 4
          /\ \A k \in 1..Len(ikResults) :
                /\ ikResults[k].attempt = k
                /\ (ikResults[k].how = "url") => (k = Len(ikResults) /\ ikPc = "returned")
          /\ (ikPc = "returned") =>
                IF ikResults[Len(ikResults)].how = "url"
                THEN ikReturn.kind = "result" /\ ikReturn.url # ""
                ELSE /\ Len(ikResults) = 3
                     /\ ikReturn = IkNull
                     /\ lastError # ""
                     /\ ikTelemetry = <<[name |-> "imagekit.upload.error",
                                         error |-> lastError, attempt |-> 3]>>)
    /\ ((ikPc = "uploading") ~> (ikPc = "returned"))

C12_Witness ==
    /\ ikPc = "returned" /\ ikReturn = IkNull /\ Len(ikResults) = 3
    /\ ikResults[1].how = "rejected" /\ ikResults[2].how = "nourl"
    /\ ikResults[3].how = "rejected" /\ lastError = "ECONNRESET"

\* C13: a call whose attempts 1 and 2 fail and whose attempt 3 succeeds has
\* awaited exactly two delays, of 1 x 2000 ms and 2 x 2000 ms, and returns
\* the result of attempt 3.
C13_TwoGrowingDelays ==
    (/\ ikPc = "returned" /\ Len(ikResults) = 3
     /\ ikResults[1].how # "url" /\ ikResults[2].how # "url" /\ ikResults[3].how = "url") =>
        /\ Len(ikDelays) = 2
        /\ ikDelays[1] = [after |-> 1, ms |-> 2000]
        /\ ikDelays[2] = [after |-> 2, ms |-> 4000]
        /\ ikDelays[2].ms > ikDelays[1].ms
        /\ ikReturn.kind = "result"

\* C14: an upload call that settles without a URL is followed, like a
\* rejected one, by the delay attempt x 2000 ms before the next attempt
\* starts.
C14_NoUrlBacksOff ==
    \A k \in 1..Len(ikResults) :
        (ikResults[k].how = "nourl" /\ k < 3 /\ attempt > k) =>
            \E d \in 1..Len(ikDelays) : ikDelays[d] = [after |-> k, ms |-> k * 2000]

\* C15: a check that finds the entry at 10 within its window is rejected
\* and leaves the entry as it was; a check made after the reset time is
\* allowed and leaves count 1 and reset time now + 60 s; and within its
\* window the count is the number of calls that were allowed in it.
C15_EleventhRejectedThenFresh ==
    /\ (lastCheck.user # "" /\ lastCheck.before.present) =>
          /\ (lastCheck.before.count = 10 /\ lastCheck.at <= lastCheck.before.resetTime) =>
                (~lastCheck.allowed /\ rateLimitMap[lastCheck.user] = lastCheck.before)
          /\ (lastCheck.at > lastCheck.before.resetTime) =>
                /\ lastCheck.allowed
                /\ rateLimitMap[lastCheck.user] =
                       [present |-> TRUE, count |-> 1, resetTime |-> lastCheck.at + 60000]
    /\ (rateLimitMap[Observed].present /\ now <= rateLimitMap[Observed].resetTime) =>
          rateLimitMap[Observed].count =
              SumOver(allowedAt, {s \in RateTimes :
                                     s + 60000 >= rateLimitMap[Observed].resetTime})

C15_Witness ==
    /\ lastCheck.before.count = 10 /\ lastCheck.at > lastCheck.before.resetTime
    /\ lastCheck.allowed /\ rateLimitMap[lastCheck.user].count = 1

\* C16: every entry has 1 <= count <= 10; a step changes at most the entry
\* of the signed-in user, either to count 1 with reset time now + 60 s, when
\* there was no entry or now is past its reset time, or by adding 1 to the
\* count and keeping the reset time, when now is not past it; and a check
\* that finds now past the reset time always starts the new window.
C16_EntriesWellFormed ==
    /\ [](\A u \in DOMAIN rateLimitMap :
             rateLimitMap[u].present => rateLimitMap[u].count \in 1..10)
    /\ [][\A u \in DOMAIN rateLimitMap :
             ((rateLimitMap'[u] # rateLimitMap[u]) =>
                  ((u = session)
                   /\ (\A v \in DOMAIN rateLimitMap \ {u} : rateLimitMap'[v] = rateLimitMap[v])
                   /\ (((~rateLimitMap[u].present \/ now' > rateLimitMap[u].resetTime)
                        /\ rateLimitMap'[u] = [present |-> TRUE, count |-> 1,
                                                resetTime |-> now' + 60000])
                       \/ (rateLimitMap[u].present /\ now' <= rateLimitMap[u].resetTime
                           /\ rateLimitMap'[u] =
                                  [rateLimitMap[u] EXCEPT !.count = @ + 1]))))
             /\ ((lastCheck' # lastCheck /\ lastCheck'.user = u
                  /\ rateLimitMap[u].present /\ now' > rateLimitMap[u].resetTime) =>
                     (rateLimitMap'[u] = [present |-> TRUE, count |-> 1,
                                           resetTime |-> now' + 60000]))]_vars

C16_Witness ==
    /\ rateLimitMap["u2"].present /\ rateLimitMap["u2"].count = 10
    /\ lastCheck.user = "u1" /\ lastCheck.before.present
    /\ lastCheck.at > lastCheck.before.resetTime
    /\ rateLimitMap["u1"].count = 1 /\ rateLimitMap["u1"].resetTime > rateLimitMap["u2"].resetTime

\* C17: no more than 10 calls of one user are allowed within any 60 seconds.
C17_RollingWindow ==
    SumOver(allowedAt, {s \in RateTimes : s + 60000 > now}) <= 10

\* C18: a gated command that is rate limited makes no object-store call and
\* returns null (upload) or an empty list (gallery), consumes nothing, and
\* the wait it reports is the number of seconds, rounded up and never
\* negative, from the check to the reset time.
C18_DeniedNotAttempted ==
    gated.denied =>
        /\ gated.storeCalls = 0
        /\ gated.ret = (IF gated.op = "upload" THEN "null" ELSE "[]")
        /\ ~lastCheck.allowed
        /\ rateLimitMap[lastCheck.user] = lastCheck.before
        /\ lastCheck.wait >= 0
        /\ lastCheck.wait * 1000 >= lastCheck.before.resetTime - lastCheck.at
        /\ (lastCheck.wait - 1) * 1000 < lastCheck.before.resetTime - lastCheck.at

C18_Witness ==
    /\ gated.denied /\ gated.op = "gallery" /\ lastCheck.wait = 60
    /\ lastCheck.before.resetTime - lastCheck.at = 59999

C20_RunsDisjoint ==
    /\ (runPath["A"] # NoPath /\ runPath["B"] # NoPath) => runPath["A"] # runPath["B"]
    /\ (runKey["A"] # NoKey /\ runKey["B"] # NoKey) => runKey["A"] # runKey["B"]

\* A step of oclite.saveImage that ends at an await or returns after one.
SaveStep(r) == savePc'[r] # savePc[r] /\ restarts' = restarts

\* C21: a preview changes neither the temp directory nor the map; a step of
\* the save command removes a file only when the bytes were written to the
\* chosen target, and then only the file that was saved; a save that is
\* cancelled in the dialog or whose write throws leaves the temp directory
\* and the map as they were.
C21_ReadBackKeepsFile ==
    [][((lastPreview' # lastPreview) =>
           (files' = files /\ downloadedImages' = downloadedImages
            /\ lastPreview'.opened = (lastPreview'.path \in files)))
       /\ (\A r \in RunIds : SaveStep(r) =>
              (((files' # files) =>
                   (savePc[r] = "dialog" /\ lastSave' = "saved"
                    /\ runPath[r] \in files /\ files' = files \ {runPath[r]}))
               /\ ((savePc[r] = "dialog" /\ lastSave' \in {"cancelled", "write_error"}) =>
                      (files' = files /\ downloadedImages' = downloadedImages
                       /\ "image_saved" \notin (notes' \ notes)))))]_vars

C21_Witness ==
    /\ lastPreview.opened /\ lastSave = "write_error" /\ savePc["A"] = "idle"
    /\ runPath["A"] \in files /\ runPath["A"] \in downloadedImages
    /\ "save_error" \in notes /\ ~deactivated

\* C22: an activation finds no file of an earlier session in the temp
\* directory.
C22_NothingSurvivesRestart ==
    leftAtActivation = {}

\* C30: the save command reports success only when the temp file was there
\* to be read and the write returned; when the file has been removed
\* between the existence check and the read, a chosen target gets an error
\* shown, no success message and no cleanup call; and the map never holds a
\* path without a file.
C30_SaveReportsOnlyWrittenBytes ==
    /\ [](downloadedImages \subseteq files)
    /\ [][\A r \in RunIds : (SaveStep(r) /\ savePc[r] = "dialog") =>
             (((lastSave' = "saved") => (runPath[r] \in files /\ "image_saved" \in notes'))
              /\ (("image_saved" \in notes' \ notes) => lastSave' = "saved")
              /\ ((runPath[r] \notin files /\ lastSave' # "cancelled") =>
                     (lastSave' = "read_error" /\ "save_error" \in notes'
                      /\ "image_saved" \notin (notes' \ notes)
                      /\ lastCleanup' = lastCleanup
                      /\ files' = files /\ downloadedImages' = downloadedImages)))]_vars

C30_Witness ==
    /\ lastSave = "read_error" /\ "save_error" \in notes /\ "image_saved" \notin notes
    /\ lastCleanup.path = runPath["A"] /\ lastCleanup.existed /\ ~lastCleanup.threw
    /\ runPath["A"] \notin files /\ downloadedImages = {} /\ ~deactivated /\ restarts = 0

\* The uploadData requests made so far: the one in flight and the blobs
\* written.
Writes == blobs \cup (IF upWrite = NoWrite THEN {} ELSE {upWrite})

\* C23: the prompt, the model name and the owner label attached to every
\* blob write consist of printable ASCII characters only.
C23_MetadataPrintable ==
    \A w \in Writes :
        /\ Printable(w.metadata.originalPrompt)
        /\ Printable(w.metadata.model)
        /\ Printable(w.metadata.userEmail)

\* C26: when uploadGeneratedImage is called again for the same prompt and
\* model after a failed write, the call derives the share id (and with it
\* the share URL) that the failed call derived.
C26_RetryKeepsShareId ==
    (upPc = "writing" /\ ~lastUpload.wrote /\ "upload_failed" \in lastUpload.shown) =>
        \A e \in shareIds :
            (e.prompt = upWrite.metadata.originalPrompt /\ e.model = upWrite.metadata.model)
                => e.id = upWrite.metadata.shareId

C27_FailedInitMeansLocalOnly ==
    (lastInit = "failed" /\ initPc = InitIdle) => ~isBlobStorageAvailable

\* C29: a blob write that succeeded makes uploadGeneratedImage return the
\* share URL and report success, whatever sign-out or clear-session command
\* ran while the write was in flight.
C29_WrittenMeansReturned ==
    lastUpload.wrote => (lastUpload.ret = "url" /\ lastUpload.shown = {"uploaded"})

\* A fetchImageGallery call has returned what it collected from the store.
GalleryReturned == gated.op = "gallery" /\ gated.ret = "images"

\* C24: fetchImageGallery(maxResults) returns at most maxResults records of
\* the listing, newest first by last-modified time, each with the caller's
\* hash as metadata.userId; a listed blob with another metadata.userId is
\* never returned.
C24_GalleryBoundedSortedOwned ==
    /\ ~GalleryReturned => images = <<>>
    /\ GalleryReturned =>
          /\ Len(images) <= lastMax
          /\ \A k \in 1..(Len(images) - 1) :
                images[k].lastModified >= images[k + 1].lastModified
          /\ \A k \in DOMAIN images :
                /\ images[k].userId = hashUserId(session)
                /\ \E j \in DOMAIN listing : listing[j] = images[k]
          /\ \A j \in DOMAIN listing :
                listing[j].userId # hashUserId(session)
                    => \A k \in DOMAIN images : images[k] # listing[j]

C24_Witness ==
    /\ GalleryReturned
    /\ lastMax = 2 /\ Len(images) = 2 /\ Len(listing) = 3
    /\ listing[1].userId = ForeignOwner
    /\ images[1] = listing[3] /\ images[2] = listing[2]
    /\ images[1].lastModified > images[2].lastModified

\* C28: with more images stored than the gallery command asks for,
\* fetchImageGallery(20) returns those with the latest last-modified times:
\* no image of the user that is left out is newer than one that is returned.
C28_GalleryShowsNewest ==
    (GalleryReturned /\ lastMax = GalleryLimit /\ Len(listing) > GalleryLimit) =>
        \A j \in DOMAIN listing :
            (listing[j].userId = hashUserId(session)
                /\ \A k \in DOMAIN images : images[k] # listing[j])
            => \A k \in DOMAIN images : images[k].lastModified >= listing[j].lastModified

====
